---- MODULE Spec2Model ----
(***************************************************************************)
(* A model of treesed (src/src/py/treesed.py): the TreeSed engine that     *)
(* searches a list of files line by line and optionally replaces matches   *)
(* in place, with an optional backup of the pre-edit content.              *)
(*                                                                         *)
(* Files on disk are sequences of bytes.  Text is a sequence of            *)
(* characters.  Reading decodes UTF-8 with errors="replace" and applies    *)
(* universal-newline translation; writing translates "\n" to os.linesep    *)
(* and encodes UTF-8.  Every open and every write can fail with OSError.   *)
(*                                                                         *)
(* Two smaller models follow it: Cleaner.do and Cleaner._apply of          *)
(* src/src/py/clean.py, and GitRepoDB.store of src/src/py/repodb.py.       *)
(***************************************************************************)
EXTENDS Integers, Sequences, FiniteSets, TLC

VARIABLES
    disk,            \* the file system: path -> bytes, or Missing
    denied,          \* paths whose open(path, "r") raises PermissionError
    case_sensitive,  \* TreeSed.case_sensitive
    use_regex,       \* TreeSed.use_regex
    op,              \* the library call in progress: "search" or "replace"
    pattern,         \* the raw pattern argument
    replacement,     \* the raw replacement argument
    backup,          \* the backup argument of replace
    files,           \* the files argument, a sequence of paths
    idx,             \* position of the for loop over files (1-based)
    pc,              \* position inside replace_file
    original_lines,  \* replace_file's local original_lines
    new_lines,       \* replace_file's local new_lines
    lines_changed,   \* replace_file's local lines_changed
    backup_path,     \* replace_file's local backup_path (None or a path)
    results,         \* the results list being accumulated
    ret,             \* what the last search_file/replace_file call returned
    pre,             \* history: the disk as it was when the current call began
    trace,           \* history: what happened to each position processed so far
    run,             \* how many times search / replace was called so far
    args,            \* main: the command line (argv, then argparse's namespace)
    stdout,          \* main: what was written to sys.stdout, item by item
    stderr,          \* main: what was written to sys.stderr
    col,             \* main: the dot column counter
    exit,            \* main: how main ended (still running, returned, SystemExit)
    baseline,        \* main: the disk at the start and, once the run without
                     \* --quiet has ended, what that run printed and left
    cfs,             \* clean: the tree under Cleaner.path: path -> content
    cfs0,            \* clean, history: the tree as it was before Cleaner.do
    cleaner,         \* clean: the Cleaner, the locals of do and _apply
    prompts,         \* clean, history: every getch prompt and its answer
    invoked,         \* clean, history: the targets the action was called on
    db,              \* repodb: the dbm file: project name -> url, or NoEntry
    repo,            \* repodb: GitRepoDB.store's loop and what it printed
    offered          \* repodb, history: every url handed to store so far

\* the state of clean.py and of repodb.py
clean == << cfs, cfs0, cleaner, prompts, invoked >>
repodb == << db, repo, offered >>

\* the state outside one run of search, replace or main
others == << baseline, clean, repodb >>

vars == << disk, denied, case_sensitive, use_regex, op, pattern, replacement,
           backup, files, idx, pc, original_lines, new_lines, lines_changed,
           backup_path, results, ret, pre, trace, run, args, stdout, stderr,
           col, exit, others >>

\* the state of treesed.py
engine == << disk, denied, case_sensitive, use_regex, op, pattern, replacement,
             backup, files, idx, pc, original_lines, new_lines, lines_changed,
             backup_path, results, ret, pre, trace, run, args, stdout, stderr,
             col, exit, baseline >>

(***************************************************************************)
(* Bounds of the model.                                                    *)
(***************************************************************************)
\* longest initial content of the first file, in bytes (stateful runs)
MaxLen == 2
\* longest file list handed to search / replace
MaxFiles == 2
\* longest file content, in bytes, of the single-file runs
MaxText == 4
\* how many times in a row the caller calls replace with the same arguments
MaxRuns == 2
\* longest file content, in bytes, of the literal-mode runs
MaxLit == 3

(***************************************************************************)
(* Characters and bytes.                                                   *)
(***************************************************************************)
LF == "LF"
CR == "CR"
BSL == "BSL"
\* U+FFFD, the replacement character errors="replace" decodes to
REPL == "uFFFD"
\* a byte that is not valid UTF-8 on its own
xFF == "xFF"
\* the three bytes of U+FFFD in UTF-8
xEF == "xEF"
xBF == "xBF"
xBD == "xBD"
\* the control characters a replacement template writes as \a and \b
BEL == "BEL"
BS == "BS"
Ascii == {"a", "A", "b", ".", "n", "1", LF, CR, BSL, BEL, BS}
\* the content of a path that does not exist
Missing == <<"Missing">>
\* the content of a path that is a directory
Directory == <<"Directory">>
\* Python's None, and the exceptions that leave replace: OSError from an
\* open or a write, re.error from a replacement template
None == [kind |-> "None"]
OSError == [kind |-> "OSError"]
ReError == [kind |-> "re.error"]

\* how main ended: still running, returned a code, or SystemExit(code)
Running == [kind |-> "running", code |-> 0]
Returned(code) == [kind |-> "returned", code |-> code]
SystemExit(code) == [kind |-> "SystemExit", code |-> code]

\* os.getpid(): one process, one fixed id
Pid == "pid"

\* a path: a file name and the suffixes appended to it
F1 == [name |-> "f1", suffix |-> <<>>]
F2 == [name |-> "f2", suffix |-> <<>>]

\* BackupPathOf with a fixed ".bak" suffix instead of the process id
BackupPathOfBak(p) == [p EXCEPT !.suffix = Append(@, "bak")]

\* Path(f"{path}.{os.getpid()}")
BackupPathOf(p) == [p EXCEPT !.suffix = Append(@, Pid)]

Targets == {F1, F2}
\* the targets, their backups, and the backups of those should a backup
\* itself be edited
Paths ==
    Targets \cup {BackupPathOf(p) : p \in Targets}
            \cup {BackupPathOf(BackupPathOf(p)) : p \in Targets}

SeqsUpTo(S, n) == UNION {[1..k -> S] : k \in 0..n}

RECURSIVE Flatten(_)
\* "".join(lines): what writelines hands to the stream
Flatten(ls) == IF ls = <<>> THEN <<>> ELSE Head(ls) \o Flatten(Tail(ls))

(***************************************************************************)
(* Reading: open(path, "r", encoding="utf-8", errors="replace") and        *)
(* f.readlines().                                                          *)
(***************************************************************************)
RECURSIVE DecodeFrom(_, _)
\* UTF-8 decoding with errors="replace": an ASCII byte is itself, EF BF BD
\* is U+FFFD, and every maximal invalid or truncated sequence becomes one
\* U+FFFD.  (Other three-byte characters are outside the model's alphabet
\* and no write of the model produces them.)
DecodeFrom(b, i) ==
    IF i > Len(b) THEN <<>>
    ELSE IF b[i] \in Ascii THEN <<b[i]>> \o DecodeFrom(b, i + 1)
    ELSE IF b[i] = xEF /\ i + 2 <= Len(b) /\ b[i + 1] = xBF /\ b[i + 2] = xBD
         THEN <<REPL>> \o DecodeFrom(b, i + 3)
    ELSE IF b[i] = xEF /\ i + 1 <= Len(b) /\ b[i + 1] \in {xBF, xBD}
         THEN <<REPL>> \o DecodeFrom(b, i + 2)
    ELSE <<REPL>> \o DecodeFrom(b, i + 1)

Decode(b) == DecodeFrom(b, 1)

RECURSIVE UniversalNewlinesFrom(_, _)
\* newline=None on a stream opened for reading: "\r\n" and "\r" become "\n"
UniversalNewlinesFrom(s, i) ==
    IF i > Len(s) THEN <<>>
    ELSE IF s[i] = CR /\ i + 1 <= Len(s) /\ s[i + 1] = LF
         THEN <<LF>> \o UniversalNewlinesFrom(s, i + 2)
    ELSE IF s[i] = CR THEN <<LF>> \o UniversalNewlinesFrom(s, i + 1)
    ELSE <<s[i]>> \o UniversalNewlinesFrom(s, i + 1)

UniversalNewlines(s) == UniversalNewlinesFrom(s, 1)

RECURSIVE SplitLinesFrom(_, _, _)
\* readlines(): cut after every "\n", keeping it; a last line may lack one
SplitLinesFrom(s, i, cur) ==
    IF i > Len(s) THEN (IF cur = <<>> THEN <<>> ELSE <<cur>>)
    ELSE IF s[i] = LF
         THEN <<Append(cur, LF)>> \o SplitLinesFrom(s, i + 1, <<>>)
    ELSE SplitLinesFrom(s, i + 1, Append(cur, s[i]))

SplitLines(s) == SplitLinesFrom(s, 1, <<>>)

ReadLines(b) == SplitLines(UniversalNewlines(Decode(b)))

\* CanRead with only a missing file caught, a permission error not
CanReadIfExists(d, dn, p) == d[p] # Missing

\* open(path, "r") succeeds: the path is a file, not a directory, and may
\* be read
CanRead(d, dn, p) == d[p] \notin {Missing, Directory} /\ p \notin dn

(***************************************************************************)
(* Writing: open(path, "w", encoding="utf-8") and f.writelines(lines).     *)
(***************************************************************************)
\* os.linesep on the POSIX platforms the tests run on
LineSep == <<LF>>

RECURSIVE EncodeFrom(_, _)
\* newline=None on a stream opened for writing turns "\n" into os.linesep;
\* UTF-8 encoding turns U+FFFD into EF BF BD and leaves ASCII alone
EncodeFrom(s, i) ==
    IF i > Len(s) THEN <<>>
    ELSE IF s[i] = LF THEN LineSep \o EncodeFrom(s, i + 1)
    ELSE IF s[i] = REPL THEN <<xEF, xBF, xBD>> \o EncodeFrom(s, i + 1)
    ELSE <<s[i]>> \o EncodeFrom(s, i + 1)

Encode(s) == EncodeFrom(s, 1)

\* the bytes a completed writelines(lines) leaves in the file
WriteLines(ls) == Encode(Flatten(ls))

\* what a write that raised OSError may have left behind: any prefix
PartialWrites(ls) == {SubSeq(WriteLines(ls), 1, k) : k \in 0..Len(WriteLines(ls))}

(***************************************************************************)
(* compile_pattern: re.escape, re.compile.  The regular expressions of the *)
(* model are sequences of single-character atoms: a literal, "." (any      *)
(* character but "\n"), or a backslash-escaped literal.                    *)
(***************************************************************************)
\* characters re.escape puts a backslash before
ReSpecial == {".", BSL, LF, CR}

\* ReEscape with the pattern handed to re.compile as it is
ReEscapeNothing(p) == p

RECURSIVE ReEscape(_)
\* re.escape(pattern)
ReEscape(p) ==
    IF p = <<>> THEN <<>>
    ELSE (IF Head(p) \in ReSpecial THEN <<BSL, Head(p)>> ELSE <<Head(p)>>)
         \o ReEscape(Tail(p))

RECURSIVE ReParseFrom(_, _)
\* re.compile's parse of the pattern text into atoms
ReParseFrom(t, i) ==
    IF i > Len(t) THEN <<>>
    ELSE IF t[i] = BSL /\ i + 1 <= Len(t) /\ t[i + 1] = "n"
         THEN <<[kind |-> "lit", ch |-> LF]>> \o ReParseFrom(t, i + 2)
    ELSE IF t[i] = BSL /\ i + 1 <= Len(t)
         THEN <<[kind |-> "lit", ch |-> t[i + 1]]>> \o ReParseFrom(t, i + 2)
    ELSE IF t[i] = "."
         THEN <<[kind |-> "any", ch |-> "."]>> \o ReParseFrom(t, i + 1)
    ELSE <<[kind |-> "lit", ch |-> t[i]]>> \o ReParseFrom(t, i + 1)

compile_pattern(p, cs, rx) ==
    [atoms |-> ReParseFrom(IF ~rx THEN ReEscape(p) ELSE p, 1),
     ignorecase |-> ~cs]

\* Fold without re.IGNORECASE taking effect
FoldNothing(c) == c

\* case folding under re.IGNORECASE
Fold(c) == IF c = "A" THEN "a" ELSE c

AtomMatches(atom, c, ic) ==
    IF atom.kind = "any" THEN c # LF
    ELSE IF ic THEN Fold(atom.ch) = Fold(c) ELSE atom.ch = c

\* the compiled pattern matches the line at offset i (1-based)
MatchAt(cp, line, i) ==
    /\ i >= 1
    /\ i + Len(cp.atoms) - 1 <= Len(line)
    /\ \A k \in 1..Len(cp.atoms) :
           AtomMatches(cp.atoms[k], line[i + k - 1], cp.ignorecase)

\* PatSearch looking for a match of at least one character
PatSearchNonEmpty(cp, line) ==
    Len(cp.atoms) > 0 /\ \E i \in 1..Len(line) : MatchAt(cp, line, i)

\* pattern.search(line)
PatSearch(cp, line) == \E i \in 1..(Len(line) + 1) : MatchAt(cp, line, i)

(***************************************************************************)
(* search_file.                                                            *)
(***************************************************************************)
RECURSIVE LineNumbersFromZero(_, _, _)
\* LineNumbersFrom with enumerate(lines) counting from 0
LineNumbersFromZero(cp, lines, i) ==
    IF i > Len(lines) THEN <<>>
    ELSE (IF PatSearch(cp, lines[i]) THEN <<i - 1>> ELSE <<>>)
         \o LineNumbersFromZero(cp, lines, i + 1)

RECURSIVE LineNumbersFrom(_, _, _)
\* for i, line in enumerate(lines, 1): if pattern.search(line): append(i)
LineNumbersFrom(cp, lines, i) ==
    IF i > Len(lines) THEN <<>>
    ELSE (IF PatSearch(cp, lines[i]) THEN <<i>> ELSE <<>>)
         \o LineNumbersFrom(cp, lines, i + 1)

FileMatches(p, line_numbers) ==
    [path |-> p, count |-> Len(line_numbers), line_numbers |-> line_numbers]

\* search_file without "if not line_numbers: return None"
search_fileAlways(cp, d, dn, p) ==
    IF ~CanRead(d, dn, p) THEN None
    ELSE FileMatches(p, LineNumbersFrom(cp, ReadLines(d[p]), 1))

\* the value search_file returns for a path on disk d
search_file(cp, d, dn, p) ==
    IF ~CanRead(d, dn, p) THEN None
    ELSE LET line_numbers == LineNumbersFrom(cp, ReadLines(d[p]), 1)
         IN  IF line_numbers = <<>> THEN None
             ELSE FileMatches(p, line_numbers)

(***************************************************************************)
(* replace_file: the substitution.                                         *)
(***************************************************************************)
RECURSIVE EscapeBackslashes(_)
\* replacement.replace("\\", "\\\\")
EscapeBackslashes(r) ==
    IF r = <<>> THEN <<>>
    ELSE (IF Head(r) = BSL THEN <<BSL, BSL>> ELSE <<Head(r)>>)
         \o EscapeBackslashes(Tail(r))

\* ReplOf without the escaping of backslashes in literal mode
ReplOfRaw(r, rx) == r

\* repl as handed to pattern.subn
ReplOf(r, rx) == IF ~rx THEN EscapeBackslashes(r) ELSE r

RECURSIVE TemplateOkFrom(_, _)
\* re's parse of the replacement template accepts it: no backslash at the
\* end, no reference to a group the pattern lacks (the patterns of the
\* model have no groups), no backslash before a letter that is no escape
TemplateOkFrom(t, i) ==
    IF i > Len(t) THEN TRUE
    ELSE IF t[i] = BSL
         THEN /\ i + 1 <= Len(t)
              /\ t[i + 1] \notin {"1", "A"}
              /\ TemplateOkFrom(t, i + 2)
    ELSE TemplateOkFrom(t, i + 1)

TemplateOk(t) == TemplateOkFrom(t, 1)

RECURSIVE ExpandTemplateFrom(_, _)
\* re's parse of the replacement template: "\\" + "n" is a newline,
\* "\\" + "a" and "\\" + "b" are BEL and backspace, a doubled backslash
\* is one backslash, a backslash before a non-alphanumeric stays as written
ExpandTemplateFrom(t, i) ==
    IF i > Len(t) THEN <<>>
    ELSE IF t[i] = BSL /\ i + 1 <= Len(t) /\ t[i + 1] = "n"
         THEN <<LF>> \o ExpandTemplateFrom(t, i + 2)
    ELSE IF t[i] = BSL /\ i + 1 <= Len(t) /\ t[i + 1] = "a"
         THEN <<BEL>> \o ExpandTemplateFrom(t, i + 2)
    ELSE IF t[i] = BSL /\ i + 1 <= Len(t) /\ t[i + 1] = "b"
         THEN <<BS>> \o ExpandTemplateFrom(t, i + 2)
    ELSE IF t[i] = BSL /\ i + 1 <= Len(t) /\ t[i + 1] = BSL
         THEN <<BSL>> \o ExpandTemplateFrom(t, i + 2)
    ELSE <<t[i]>> \o ExpandTemplateFrom(t, i + 1)

ExpandTemplate(t) == ExpandTemplateFrom(t, 1)

RECURSIVE SubnFrom(_, _, _, _)
\* pattern.subn(repl, line): scan left to right, replace each match found
\* and resume after it; an empty match is replaced and the scan moves on
\* by one character.  The result is [out |-> new line, n |-> substitutions].
SubnFrom(cp, r, line, i) ==
    IF i > Len(line) + 1 THEN [out |-> <<>>, n |-> 0]
    ELSE IF MatchAt(cp, line, i) /\ Len(cp.atoms) > 0
         THEN LET rest == SubnFrom(cp, r, line, i + Len(cp.atoms))
              IN  [out |-> r \o rest.out, n |-> rest.n + 1]
    ELSE IF MatchAt(cp, line, i)
         THEN LET rest == SubnFrom(cp, r, line, i + 1)
              IN  [out |-> r \o (IF i <= Len(line) THEN <<line[i]>> ELSE <<>>)
                             \o rest.out,
                   n |-> rest.n + 1]
    ELSE LET rest == SubnFrom(cp, r, line, i + 1)
         IN  [out |-> (IF i <= Len(line) THEN <<line[i]>> ELSE <<>>) \o rest.out,
              n |-> rest.n]

Subn(cp, rp, line) == SubnFrom(cp, ExpandTemplate(rp), line, 1)

\* new_lines after the loop over original_lines
NewLinesOf(cp, rp, lines) ==
    [k \in 1..Len(lines) |-> Subn(cp, rp, lines[k]).out]

\* LinesChangedOf with "lines_changed += 1" outside the "if n > 0"
LinesChangedOfEveryLine(cp, rp, lines) == Len(lines)

RECURSIVE SumOfSubstitutions(_, _, _)
SumOfSubstitutions(cp, rp, lines) ==
    IF lines = <<>> THEN 0
    ELSE Subn(cp, rp, Head(lines)).n + SumOfSubstitutions(cp, rp, Tail(lines))

\* LinesChangedOf with "lines_changed += n"
LinesChangedOfOccurrences(cp, rp, lines) == SumOfSubstitutions(cp, rp, lines)

\* lines_changed after the loop: one per line with n > 0
LinesChangedOf(cp, rp, lines) ==
    Cardinality({k \in 1..Len(lines) : Subn(cp, rp, lines[k]).n > 0})

FileReplacement(p, count, bp) ==
    [path |-> p, count |-> count, backup_path |-> bp]

(***************************************************************************)
(* The run: TreeSed.search and TreeSed.replace loop over files; for        *)
(* replace, pc follows replace_file through its opens and writes.          *)
(***************************************************************************)
InCall == pc \in {"backup_open", "backup_write", "target_open", "target_write",
                 "except", "restore_write"}

\* the path the loop is at
path == files[idx]

compiled == compile_pattern(pattern, case_sensitive, use_regex)

repl == ReplOf(replacement, use_regex)

\* AppendResult with results.insert(0, match)
PrependResult(rs, value) == IF value # None THEN <<value>> \o rs ELSE rs

\* "if match is not None: results.append(match)"
AppendResult(rs, value) == IF value # None THEN Append(rs, value) ELSE rs

\* an item written to sys.stdout or sys.stderr
Item(kind, p, count, line_numbers) ==
    [kind |-> kind, path |-> p, count |-> count, line_numbers |-> line_numbers]

\* main, lines 348-352: "Replaced <pattern> -> <replacement> on <count>
\* lines in <path>"
ReplacedLine(r) == Item("replaced", r.path, r.count, <<>>)

\* search_file or replace_file returns value to the loop, which appends it
\* unless it is None and moves on (main prints the "Replaced" line
\* instead).  d0 and d are the disk at the start and at the end of the
\* call; failed says whether an open or a write raised.
Return(value, d0, d, failed) ==
    /\ ret' = value
    /\ results' = AppendResult(results, value)
    /\ stdout' = IF op = "main" /\ value # None
                 THEN Append(stdout, ReplacedLine(value)) ELSE stdout
    /\ trace' = Append(trace, [path |-> path, pre |-> d0, post |-> d,
                               ret |-> value, failed |-> failed, via |-> pc,
                               run |-> run])
    /\ idx' = idx + 1
    /\ pc' = "loop"

\* search: one pass of "for path in files" (search_file and the append)
SearchStep ==
    /\ op = "search" /\ pc = "loop" /\ idx <= Len(files)
    /\ pre' = disk
    /\ Return(search_file(compiled, disk, denied, path), disk, disk, FALSE)
    /\ UNCHANGED << others, disk, denied, case_sensitive, use_regex, op, pattern,
                    replacement, backup, files, original_lines,
                    new_lines, lines_changed, backup_path, run, args, stderr,
                    col, exit >>

\* replace_file, lines 156-177: read the file, substitute line by line,
\* return None when the file cannot be read or no line changed.  The first
\* pattern.subn raises re.error when the replacement template is invalid.
\* Called from the loop of replace, or from the loop of main after a match.
ReplaceRead ==
    /\ \/ op = "replace" /\ pc = "loop" /\ idx <= Len(files)
       \/ op = "main" /\ pc = "replace_file"
    /\ pre' = disk
    /\ IF ~CanRead(disk, denied, path)
       THEN /\ Return(None, disk, disk, FALSE)
            /\ UNCHANGED << original_lines, new_lines, lines_changed,
                            backup_path >>
       ELSE LET lines == ReadLines(disk[path]) IN
            IF lines # <<>> /\ ~TemplateOk(repl)
            THEN /\ original_lines' = lines
                 /\ new_lines' = <<>>
                 /\ lines_changed' = 0
                 /\ pc' = "raised"
                 /\ ret' = ReError
                 /\ UNCHANGED << backup_path, trace, idx, results, stdout >>
            ELSE LET changed == LinesChangedOf(compiled, repl, lines)
                 IN  /\ original_lines' = lines
                     /\ new_lines' = NewLinesOf(compiled, repl, lines)
                     /\ lines_changed' = changed
                     /\ backup_path' = None
                     /\ IF changed = 0
                        THEN Return(None, disk, disk, FALSE)
                        ELSE /\ pc' = IF backup THEN "backup_open"
                                      ELSE "target_open"
                             /\ UNCHANGED << ret, trace, idx, results,
                                             stdout >>
    /\ UNCHANGED << others, disk, denied, case_sensitive, use_regex, op, pattern,
                    replacement, backup, files, run, args, stderr, col,
                    exit >>

Frame == UNCHANGED << denied, case_sensitive, use_regex, op, pattern,
                      replacement, backup, files, original_lines, new_lines,
                      lines_changed, pre, run, args, stderr, col, exit,
                      others >>

\* lines 181-183: open(backup_path, "w") creates or truncates the backup
BackupOpenOk ==
    /\ pc = "backup_open"
    /\ backup_path' = BackupPathOf(path)
    /\ disk' = [disk EXCEPT ![BackupPathOf(path)] = <<>>]
    /\ pc' = "backup_write"
    /\ UNCHANGED << idx, results, ret, trace, stdout >>
    /\ Frame

\* lines 183, 185-186: the open raises OSError; return None
BackupOpenFail ==
    /\ pc = "backup_open"
    /\ backup_path' = BackupPathOf(path)
    /\ UNCHANGED disk
    /\ Return(None, pre, disk, TRUE)
    /\ Frame

\* line 184: f.writelines(original_lines), and the with block closes f
BackupWriteOk ==
    /\ pc = "backup_write"
    /\ disk' = [disk EXCEPT ![backup_path] = WriteLines(original_lines)]
    /\ pc' = "target_open"
    /\ UNCHANGED << idx, results, ret, trace, stdout, backup_path >>
    /\ Frame

\* BackupWriteFail with the OSError swallowed and the call going on
BackupWriteFailIgnored ==
    /\ pc = "backup_write"
    /\ \E part \in PartialWrites(original_lines) :
           disk' = [disk EXCEPT ![backup_path] = part]
    /\ pc' = "target_open"
    /\ UNCHANGED << idx, results, ret, trace, stdout, backup_path >>
    /\ Frame

\* lines 184-186: the write or the close raises OSError; return None
BackupWriteFail ==
    /\ pc = "backup_write"
    /\ \E part \in PartialWrites(original_lines) :
           /\ disk' = [disk EXCEPT ![backup_path] = part]
           /\ Return(None, pre, disk', TRUE)
    /\ UNCHANGED backup_path
    /\ Frame

\* line 189: open(path, "w") truncates the target
TargetOpenOk ==
    /\ pc = "target_open"
    /\ disk' = [disk EXCEPT ![path] = <<>>]
    /\ pc' = "target_write"
    /\ UNCHANGED << idx, results, ret, trace, stdout, backup_path >>
    /\ Frame

\* lines 189, 191: the open raises OSError
TargetOpenFail ==
    /\ pc = "target_open"
    /\ pc' = "except"
    /\ UNCHANGED << disk, idx, results, ret, trace, stdout, backup_path >>
    /\ Frame

\* lines 190, 197-199: f.writelines(new_lines); return FileReplacement
TargetWriteOk ==
    /\ pc = "target_write"
    /\ disk' = [disk EXCEPT ![path] = WriteLines(new_lines)]
    /\ Return(FileReplacement(path, lines_changed, backup_path), pre, disk',
              FALSE)
    /\ UNCHANGED backup_path
    /\ Frame

\* lines 190-191: the write or the close raises OSError
TargetWriteFail ==
    /\ pc = "target_write"
    /\ \E part \in PartialWrites(new_lines) :
           disk' = [disk EXCEPT ![path] = part]
    /\ pc' = "except"
    /\ UNCHANGED << idx, results, ret, trace, stdout, backup_path >>
    /\ Frame

\* ExceptReturn with the OSError raised again instead of "return None"
ExceptReraise ==
    /\ pc = "except"
    /\ ~(backup_path # None /\ disk[backup_path] # Missing)
    /\ pc' = "raised"
    /\ ret' = OSError
    /\ UNCHANGED << disk, idx, results, trace, stdout, backup_path >>
    /\ Frame

\* lines 192, 195: no backup to restore from; return None
ExceptReturn ==
    /\ pc = "except"
    /\ ~(backup_path # None /\ disk[backup_path] # Missing)
    /\ UNCHANGED << disk, backup_path >>
    /\ Return(None, pre, disk, TRUE)
    /\ Frame

\* lines 192-193: the backup exists; open(path, "w") to restore
RestoreOpenOk ==
    /\ pc = "except"
    /\ backup_path # None /\ disk[backup_path] # Missing
    /\ disk' = [disk EXCEPT ![path] = <<>>]
    /\ pc' = "restore_write"
    /\ UNCHANGED << idx, results, ret, trace, stdout, backup_path >>
    /\ Frame

\* line 193 raises OSError inside the except clause: nothing catches it,
\* it leaves replace_file and replace
RestoreOpenFail ==
    /\ pc = "except"
    /\ backup_path # None /\ disk[backup_path] # Missing
    /\ pc' = "raised"
    /\ ret' = OSError
    /\ UNCHANGED << disk, idx, results, trace, stdout, backup_path >>
    /\ Frame

\* lines 194-195: f.writelines(original_lines); return None
RestoreWriteOk ==
    /\ pc = "restore_write"
    /\ disk' = [disk EXCEPT ![path] = WriteLines(original_lines)]
    /\ Return(None, pre, disk', TRUE)
    /\ UNCHANGED backup_path
    /\ Frame

\* line 194 raises OSError inside the except clause
RestoreWriteFail ==
    /\ pc = "restore_write"
    /\ \E part \in PartialWrites(original_lines) :
           disk' = [disk EXCEPT ![path] = part]
    /\ pc' = "raised"
    /\ ret' = OSError
    /\ UNCHANGED << idx, results, trace, stdout, backup_path >>
    /\ Frame

\* the for loop is exhausted: return results
Finish ==
    /\ op \in {"search", "replace"}
    /\ pc = "loop" /\ idx > Len(files)
    /\ pc' = "done"
    /\ UNCHANGED << others, disk, denied, case_sensitive, use_regex, op, pattern,
                    replacement, backup, files, idx, original_lines,
                    new_lines, lines_changed, backup_path, results, ret,
                    pre, trace, run, args, stdout, stderr, col, exit >>

\* the caller calls search / replace once more with the same arguments:
\* compile_pattern again, results = [], the loop from the first file
Rerun ==
    /\ op \in {"search", "replace"}
    /\ pc = "done"
    /\ run < MaxRuns
    /\ run' = run + 1
    /\ idx' = 1
    /\ results' = <<>>
    /\ pc' = "loop"
    /\ UNCHANGED << others, disk, denied, case_sensitive, use_regex, op, pattern,
                    replacement, backup, files, original_lines, new_lines,
                    lines_changed, backup_path, ret, pre, trace, args,
                    stdout, stderr, col, exit >>

(***************************************************************************)
(* collect_files, collect_tree and main.                                   *)
(***************************************************************************)
\* Path(p).is_file()
is_file(d, p) == d[p] \notin {Missing, Directory}

RECURSIVE collect_filesExisting(_, _)
\* collect_files with Path(p).exists() in place of is_file()
collect_filesExisting(d, paths) ==
    IF paths = <<>> THEN <<>>
    ELSE (IF d[Head(paths)] # Missing THEN <<Head(paths)>> ELSE <<>>)
         \o collect_filesExisting(d, Tail(paths))

RECURSIVE collect_files(_, _)
\* [Path(p) for p in paths if Path(p).is_file()]
collect_files(d, paths) ==
    IF paths = <<>> THEN <<>>
    ELSE (IF is_file(d, Head(paths)) THEN <<Head(paths)>> ELSE <<>>)
         \o collect_files(d, Tail(paths))

\* the place of a path in sorted order: "f1" < "f1.<pid>" < "f2" < "f2.<pid>"
PathRank(p) == 3 * (IF p.name = "f1" THEN 1 ELSE 2) + Len(p.suffix)

RECURSIVE SortedPaths(_)
\* sorted(S) for a set of paths
SortedPaths(S) ==
    IF S = {} THEN <<>>
    ELSE LET first == CHOOSE p \in S : \A q \in S : PathRank(p) <= PathRank(q)
         IN  <<first>> \o SortedPaths(S \ {first})

\* collect_tree without the is_file() filter
collect_treeUnfiltered(d) == SortedPaths(DOMAIN d)

\* sorted(p for p in root.rglob("*") if p.is_file())
collect_tree(d) == SortedPaths({p \in DOMAIN d : is_file(d, p)})

\* the mutually exclusive group is satisfied: exactly one of --tree and
\* --files FILE [FILE ...] was given
ArgsAccepted == args.tree # (args.files # <<>>)

\* after how many dots the progress line is broken
DotsPerLine == 50

\* LineFull with "col > 50" for "col >= 50"
LineFullLate(c) == c > DotsPerLine

\* line 328: the line of dots is full
LineFull(c) == c >= DotsPerLine

\* the text main writes
NoInputFiles == Item("No input files", None, 0, <<>>)
UsageError == Item("usage error", None, 0, <<>>)
Dot == Item(".", None, 0, <<>>)
Newline == Item("newline", None, 0, <<>>)
MatchLine(m) == Item("matches", m.path, m.count, m.line_numbers)
Header ==
    <<Item("search_pattern", None, 0, <<>>)>>
    \o (IF args.has_replacement
        THEN <<Item("replacement_pattern", None, 0, <<>>)>> ELSE <<>>)
    \o <<Item(IF args.has_replacement THEN "EDIT mode" ELSE "Search mode",
              None, 0, <<>>)>>

\* ParseArgs with the group neither required nor exclusive
ParseArgsLenient ==
    /\ op = "main" /\ pc = "start"
    /\ backup' = ~args.no_backup
    /\ pc' = "collect"
    /\ UNCHANGED << others, disk, denied, case_sensitive, use_regex, op, pattern,
                    replacement, files, idx, original_lines, new_lines,
                    lines_changed, backup_path, results, ret, pre, trace,
                    run, args, stdout, stderr, col, exit >>

\* main, lines 246-301: parser.parse_args(argv).  A command line with both
\* or neither of --tree and --files ends in parser.error: usage on stderr
\* and SystemExit(2).
ParseArgs ==
    /\ op = "main" /\ pc = "start"
    /\ IF ArgsAccepted
       THEN /\ backup' = ~args.no_backup
            /\ pc' = "collect"
            /\ UNCHANGED << stderr, exit >>
       ELSE /\ stderr' = Append(stderr, UsageError)
            /\ exit' = SystemExit(2)
            /\ pc' = "done"
            /\ UNCHANGED backup
    /\ UNCHANGED << others, disk, denied, case_sensitive, use_regex, op, pattern,
                    replacement, files, idx, original_lines, new_lines,
                    lines_changed, backup_path, results, ret, pre, trace,
                    run, args, stdout, col >>

\* CollectFiles with the header printed whether or not --quiet was given
CollectFilesLoud ==
    /\ op = "main" /\ pc = "collect"
    /\ files' = IF args.tree THEN collect_tree(disk)
                ELSE collect_files(disk, args.files)
    /\ IF files' = <<>>
       THEN /\ stderr' = Append(stderr, NoInputFiles)
            /\ exit' = Returned(1)
            /\ pc' = "done"
            /\ UNCHANGED << stdout, col >>
       ELSE /\ stdout' = stdout \o Header
            /\ col' = 0
            /\ pc' = "loop"
            /\ UNCHANGED << stderr, exit >>
    /\ UNCHANGED << others, disk, denied, case_sensitive, use_regex, op, pattern,
                    replacement, backup, idx, original_lines, new_lines,
                    lines_changed, backup_path, results, ret, pre, trace,
                    run, args >>

\* main, lines 303-320: collect the files; return 1 when there are none,
\* print the header otherwise
CollectFiles ==
    /\ op = "main" /\ pc = "collect"
    /\ files' = IF args.tree THEN collect_tree(disk)
                ELSE collect_files(disk, args.files)
    /\ IF files' = <<>>
       THEN /\ stderr' = Append(stderr, NoInputFiles)
            /\ exit' = Returned(1)
            /\ pc' = "done"
            /\ UNCHANGED << stdout, col >>
       ELSE /\ stdout' = IF args.quiet THEN stdout ELSE stdout \o Header
            /\ col' = 0
            /\ pc' = "loop"
            /\ UNCHANGED << stderr, exit >>
    /\ UNCHANGED << others, disk, denied, case_sensitive, use_regex, op, pattern,
                    replacement, backup, idx, original_lines, new_lines,
                    lines_changed, backup_path, results, ret, pre, trace,
                    run, args >>

\* main, lines 322-341: search_file on the next path, the progress dot,
\* the result line, and on to replace_file when there is a replacement
MainSearch ==
    /\ op = "main" /\ pc = "loop" /\ idx <= Len(files)
    /\ LET result == search_file(compiled, disk, denied, path)
           wrap == ~args.quiet /\ LineFull(col + 1)
           col1 == IF args.quiet THEN col ELSE IF wrap THEN 0 ELSE col + 1
           out1 == IF args.quiet THEN stdout
                   ELSE stdout \o <<Dot>> \o (IF wrap THEN <<Newline>> ELSE <<>>)
       IN  /\ ret' = result
           /\ IF result # None
              THEN /\ stdout' = out1
                                \o (IF ~args.quiet /\ col1 > 0
                                    THEN <<Newline>> ELSE <<>>)
                                \o <<MatchLine(result)>>
                   /\ col' = IF ~args.quiet /\ col1 > 0 THEN 0 ELSE col1
                   /\ IF args.has_replacement
                      THEN pc' = "replace_file" /\ UNCHANGED idx
                      ELSE idx' = idx + 1 /\ UNCHANGED pc
              ELSE /\ stdout' = out1
                   /\ col' = col1
                   /\ idx' = idx + 1
                   /\ UNCHANGED pc
    /\ UNCHANGED << others, disk, denied, case_sensitive, use_regex, op, pattern,
                    replacement, backup, files, original_lines, new_lines,
                    lines_changed, backup_path, results, pre, trace, run,
                    args, stderr, exit >>

\* main, lines 354-357: end the last line of dots and return 0
MainFinish ==
    /\ op = "main" /\ pc = "loop" /\ idx > Len(files)
    /\ stdout' = IF ~args.quiet /\ col > 0 THEN Append(stdout, Newline)
                 ELSE stdout
    /\ exit' = Returned(0)
    /\ pc' = "done"
    /\ UNCHANGED << others, disk, denied, case_sensitive, use_regex, op, pattern,
                    replacement, backup, files, idx, original_lines,
                    new_lines, lines_changed, backup_path, results, ret,
                    pre, trace, run, args, stderr, col >>

\* main has ended; the same command line is run again with --quiet added,
\* on the disk the first run started from
RunQuiet ==
    /\ op = "main" /\ pc = "done"
    /\ ~args.quiet /\ ~baseline.done
    /\ baseline' = [disk |-> baseline.disk, done |-> TRUE, stdout |-> stdout,
                    exit |-> exit, after |-> disk]
    /\ args' = [args EXCEPT !.quiet = TRUE]
    /\ disk' = baseline.disk
    /\ pre' = baseline.disk
    /\ backup' = TRUE
    /\ files' = <<>>
    /\ idx' = 1
    /\ pc' = "start"
    /\ original_lines' = <<>>
    /\ new_lines' = <<>>
    /\ lines_changed' = 0
    /\ backup_path' = None
    /\ results' = <<>>
    /\ ret' = None
    /\ trace' = <<>>
    /\ stdout' = <<>>
    /\ stderr' = <<>>
    /\ col' = 0
    /\ exit' = Running
    /\ UNCHANGED << denied, case_sensitive, use_regex, op, pattern,
                    replacement, run, clean, repodb >>

(***************************************************************************)
(* clean.py: Cleaner.do walks the tree, asks once for all targets (y, n    *)
(* or c to confirm each), and Cleaner._apply applies the action to the     *)
(* targets, asking per target when confirming.                             *)
(***************************************************************************)
\* the tree under Cleaner.path: a directory, a file inside it, and a file
\* beside it; ending is what str.endswith sees
CD == [parent |-> "root", name |-> "cache", ending |-> "__pycache__"]
CM == [parent |-> "cache", name |-> "m", ending |-> ".pyc"]
CG == [parent |-> "root", name |-> "n", ending |-> ".pyc"]
CleanPaths == {CD, CM, CG}

\* os.walk(path), top down: the directories of the root, its files, then
\* the files of the directory
WalkOrder == <<CD, CG, CM>>

\* the keys getch may return
Keys == {"y", "Y", "c", "C", "n", "q"}

SPACE == " "
Whitespace == {SPACE, CR, LF}

CleanLog(kind, target, count) == [kind |-> kind, target |-> target, count |-> count]

\* matchers['endswith']: any(s.endswith(p) for p in patterns)
endswith(s) == s.ending \in cleaner.patterns

\* do, lines 156-159: show keeps the matching paths, or the others with
\* negate
show(p) == IF ~cleaner.negate THEN endswith(p) ELSE ~endswith(p)

\* walk: the paths of the tree, in os.walk order, that show keeps
walk(fs) ==
    LET Kept(p) == fs[p] # Missing /\ show(p)
    IN  SelectSeq(WalkOrder, Kept)

\* p lies under directory dir
Inside(p, dir) == p.parent = dir.name

\* delete: os.remove a file, shutil.rmtree a directory and all under it;
\* nothing when the path is neither
delete(fs, target) ==
    IF fs[target] = Missing THEN fs
    ELSE IF fs[target] = Directory
         THEN [p \in DOMAIN fs |->
                 IF p = target \/ Inside(p, target) THEN Missing ELSE fs[p]]
    ELSE [fs EXCEPT ![target] = Missing]

RECURSIVE rstrip(_)
\* str.rstrip(): drop trailing whitespace
rstrip(line) ==
    IF line # <<>> /\ line[Len(line)] \in Whitespace
    THEN rstrip(SubSeq(line, 1, Len(line) - 1))
    ELSE line

\* clean_endings: read the lines in text mode, write each back as
\* l.rstrip() + "\n"
clean_endings(fs, target) ==
    LET lines == SplitLines(UniversalNewlines(fs[target]))
    IN  [fs EXCEPT ![target] =
             Flatten([k \in 1..Len(lines) |-> Append(rstrip(lines[k]), LF)])]

\* func(target): the action is called on target.  clean_endings raises
\* when the target cannot be opened as a file.
Call(target) ==
    IF cleaner.action = "convert" /\ cfs[target] \in {Missing, Directory}
    THEN [fs |-> cfs, log |-> cleaner.log,
          invoked |-> Append(invoked, target), raised |-> TRUE]
    ELSE [fs |-> IF cleaner.action = "convert"
                 THEN clean_endings(cfs, target) ELSE delete(cfs, target),
          log |-> cleaner.log,
          invoked |-> Append(invoked, target), raised |-> FALSE]

\* ApplyTo with the dry_run test left out
ApplyToAlways(target) == Call(target)

\* _apply, lines 103-106 and 112-115: log what would be done when
\* dry_run, call the action otherwise
ApplyTo(target) ==
    IF cleaner.dry_run
    THEN [fs |-> cfs,
          log |-> Append(cleaner.log, CleanLog("Would", target, 0)),
          invoked |-> invoked, raised |-> FALSE]
    ELSE Call(target)

\* Confirmed with every answer but q taken for a yes
ConfirmedUnlessQuit(answer) == answer # "q"

\* _apply, line 102: answer in ['y', 'Y']
Confirmed(answer) == answer \in {"y", "Y"}

\* do, lines 152-174: walk, and when there are results ask once for all
\* of them: y applies, c applies with a prompt per target, anything else
\* cancels
Do ==
    /\ cleaner.pc = "do"
    /\ LET found == walk(cfs) IN
       IF found # <<>>
       THEN \E answer \in Keys :
                /\ prompts' = Append(prompts, [target |-> None,
                                               answer |-> answer])
                /\ cleaner' =
                       IF answer \in {"y", "Y"}
                       THEN [cleaner EXCEPT !.targets = found,
                                            !.confirm = FALSE, !.pc = "apply"]
                       ELSE IF answer \in {"c", "C"}
                       THEN [cleaner EXCEPT !.targets = found,
                                            !.confirm = TRUE, !.pc = "apply"]
                       ELSE [cleaner EXCEPT
                                !.targets = found,
                                !.log = Append(@, CleanLog("Action cancelled.",
                                                           None, 0)),
                                !.pc = "finished"]
       ELSE /\ cleaner' = [cleaner EXCEPT
                              !.log = Append(@, CleanLog("No results.",
                                                         None, 0)),
                              !.pc = "finished"]
            /\ UNCHANGED prompts
    /\ UNCHANGED << cfs, cfs0, invoked, engine, repodb >>

\* _apply, lines 99-116: one pass of "for target in self.targets"
ApplyStep ==
    /\ cleaner.pc = "apply" /\ cleaner.k <= Len(cleaner.targets)
    /\ LET target == cleaner.targets[cleaner.k] IN
       \E answer \in (IF cleaner.confirm THEN Keys ELSE {"y"}) :
           LET out == ApplyTo(target) IN
           /\ prompts' = IF cleaner.confirm
                         THEN Append(prompts, [target |-> target,
                                               answer |-> answer])
                         ELSE prompts
           /\ IF ~cleaner.confirm \/ Confirmed(answer)
              THEN /\ cfs' = out.fs
                   /\ invoked' = out.invoked
                   /\ cleaner' =
                          IF out.raised
                          THEN [cleaner EXCEPT !.pc = "raised"]
                          ELSE [cleaner EXCEPT !.log = out.log,
                                               !.i = @ + 1, !.k = @ + 1]
              ELSE /\ UNCHANGED << cfs, invoked >>
                   /\ cleaner' =
                          IF answer = "q"
                          THEN [cleaner EXCEPT !.pc = "summary"]
                          ELSE [cleaner EXCEPT !.k = @ + 1]
    /\ UNCHANGED << cfs0, engine, repodb >>

\* _apply, lines 117-124: after the loop or the break, log how many
\* targets the action was applied to
ApplySummary ==
    /\ \/ cleaner.pc = "summary"
       \/ cleaner.pc = "apply" /\ cleaner.k > Len(cleaner.targets)
    /\ cleaner' =
           [cleaner EXCEPT
               !.log = Append(@, IF cleaner.i > 0
                                 THEN CleanLog(IF cleaner.dry_run
                                               THEN "Would apply"
                                               ELSE "Applied",
                                               None, cleaner.i)
                                 ELSE CleanLog("No action taken", None, 0)),
               !.pc = "finished"]
    /\ UNCHANGED << cfs, cfs0, prompts, invoked, engine, repodb >>

(***************************************************************************)
(* repodb.py: GitRepoDB.store puts each url of a list into the dbm file     *)
(* under its project name, the stem of the url, unless the name is taken.  *)
(***************************************************************************)
\* how many urls one call of store is given, and how many calls are made
MaxUrls == 2
MaxStores == 2

\* urls as Path objects: the part before the last "/" and the name, split
\* at its dots.  U1 and U2 are different urls of equally named projects.
U1 == [dir |-> "https:/h1/u", name |-> <<"repo1", "git">>]
U2 == [dir |-> "https:/h2/v", name |-> <<"repo1">>]
U3 == [dir |-> "https:/h1/u", name |-> <<"repo2", "tar", "git">>]
Urls == {U1, U2, U3}

RECURSIVE JoinDots(_)
\* the parts of a name written with "." between them
JoinDots(parts) ==
    IF Len(parts) <= 1 THEN parts
    ELSE <<Head(parts), ".">> \o JoinDots(Tail(parts))

\* Path.stem: the name without its last suffix
Stem(url) ==
    IF Len(url.name) <= 1 THEN JoinDots(url.name)
    ELSE JoinDots(SubSeq(url.name, 1, Len(url.name) - 1))

\* str(url)
Str(url) == <<url.dir, "/">> \o JoinDots(url.name)

ProjectNames == {Stem(u) : u \in Urls}

\* db[name] of a name that is not in the file
NoEntry == <<"NoEntry">>

\* StoreUrl without the test "url.stem in db"
StoreUrlAlways(d, url) == [d EXCEPT ![Stem(url)] = Str(url)]

\* store, lines 120-124: leave the file alone when the name is taken,
\* else db[url.stem] = str(url)
StoreUrl(d, url) ==
    IF d[Stem(url)] # NoEntry THEN d
    ELSE [d EXCEPT ![Stem(url)] = Str(url)]

\* what store prints for url
StorePrint(d, url) ==
    [kind |-> IF d[Stem(url)] # NoEntry THEN "skipping:" ELSE "storing:",
     name |-> Stem(url)]

\* store(urls) is called, line 119: the dbm file is opened, created if
\* need be
Store ==
    /\ repo.pc = "idle" /\ repo.calls < MaxStores
    /\ \E urls \in SeqsUpTo(Urls, MaxUrls) :
           repo' = [repo EXCEPT !.pc = "loop", !.todo = urls,
                                !.calls = @ + 1]
    /\ UNCHANGED << db, offered, engine, clean >>

\* store, lines 120-124: one pass of "for url in urls"
StoreStep ==
    /\ repo.pc = "loop" /\ repo.todo # <<>>
    /\ LET url == Head(repo.todo) IN
       /\ db' = StoreUrl(db, url)
       /\ repo' = [repo EXCEPT !.todo = Tail(@),
                                !.printed = Append(@, StorePrint(db, url))]
       /\ offered' = Append(offered, [url |-> url, call |-> repo.calls])
    /\ UNCHANGED << engine, clean >>

\* store: the loop is over, the with block closes the file
StoreReturn ==
    /\ repo.pc = "loop" /\ repo.todo = <<>>
    /\ repo' = [repo EXCEPT !.pc = "idle"]
    /\ UNCHANGED << db, offered, engine, clean >>

\* no store is in progress and none will be
RepoIdle ==
    /\ db = [n \in ProjectNames |-> NoEntry]
    /\ repo = [pc |-> "off", todo |-> <<>>, printed |-> <<>>, calls |-> 0]
    /\ offered = <<>>

\* no Cleaner is at work
CleanIdle ==
    /\ cfs = [p \in CleanPaths |-> Missing]
    /\ cfs0 = cfs
    /\ cleaner = [dry_run |-> FALSE, action |-> "none", negate |-> FALSE,
                  patterns |-> {}, targets |-> <<>>, confirm |-> FALSE,
                  i |-> 0, k |-> 1, log |-> <<>>, pc |-> "idle"]
    /\ prompts = <<>>
    /\ invoked = <<>>

(***************************************************************************)
(* Initial states.                                                         *)
(***************************************************************************)
\* bytes of the first file's initial content in the stateful runs
DiskBytes == {"a", LF, CR}
\* the second file: present but unreadable, or present
OtherFiles == {[content |-> <<"a", xFF>>, denied |-> {F2}],
               [content |-> <<"a", xFF>>, denied |-> {}]}
\* patterns and replacements of the stateful runs
RunPatterns == {<<"a">>}
RunReplacements == {<<"b">>}

\* bytes, patterns and replacements of the single-file runs
TextBytes == {"a", "A", ".", LF}
Patterns == {<<>>, <<"a">>, <<"A">>, <<".">>, <<"a", "a">>, <<"a", ".">>,
             <<"A", "a">>}
Replacements == {<<>>, <<"b">>, <<BSL, "n">>}

\* no run of main has ended
BaselineIdle ==
    /\ baseline = [disk |-> disk, done |-> FALSE, stdout |-> <<>>,
                   exit |-> Running, after |-> disk]

\* nothing else is going on
OthersIdle ==
    /\ BaselineIdle
    /\ CleanIdle
    /\ RepoIdle

InitLocals ==
    /\ idx = 1
    /\ pc = "loop"
    /\ original_lines = <<>>
    /\ new_lines = <<>>
    /\ lines_changed = 0
    /\ backup_path = None
    /\ results = <<>>
    /\ ret = None
    /\ pre = disk
    /\ trace = <<>>
    /\ run = 1
    /\ stdout = <<>>
    /\ stderr = <<>>
    /\ col = 0
    /\ exit = Running
    /\ OthersIdle

\* a library run: there is no command line
NoArgs == [tree |-> FALSE, files |-> <<>>, quiet |-> FALSE,
           no_backup |-> FALSE, has_replacement |-> FALSE]

Init ==
    /\ \E c1 \in SeqsUpTo(DiskBytes, MaxLen) \cup {Missing},
          o \in OtherFiles :
           /\ disk = [p \in Paths |->
                        IF p = F1 THEN c1
                        ELSE IF p = F2 THEN o.content ELSE Missing]
           /\ denied = o.denied
    /\ case_sensitive = FALSE
    /\ use_regex = FALSE
    /\ op \in {"search", "replace"}
    /\ pattern \in RunPatterns
    /\ replacement \in RunReplacements
    /\ backup \in BOOLEAN
    /\ files \in SeqsUpTo(Targets, MaxFiles) \ {<<>>}
    /\ args = NoArgs
    /\ InitLocals

Next ==
    \/ SearchStep
    \/ ReplaceRead
    \/ BackupOpenOk
    \/ BackupOpenFail
    \/ BackupWriteOk
    \/ BackupWriteFail
    \/ TargetOpenOk
    \/ TargetOpenFail
    \/ TargetWriteOk
    \/ TargetWriteFail
    \/ ExceptReturn
    \/ RestoreOpenOk
    \/ RestoreOpenFail
    \/ RestoreWriteOk
    \/ RestoreWriteFail
    \/ Finish

Spec == Init /\ [][Next]_vars

(***************************************************************************)
(* Single-file runs: one file of richer content, every flag combination,   *)
(* and an environment in which no open or write fails.                     *)
(***************************************************************************)
InitFile ==
    /\ \E c1 \in SeqsUpTo(TextBytes, MaxText) :
           disk = [p \in Paths |-> IF p = F1 THEN c1 ELSE Missing]
    /\ denied = {}
    /\ case_sensitive \in BOOLEAN
    /\ use_regex \in BOOLEAN
    /\ op \in {"search", "replace"}
    /\ pattern \in Patterns
    /\ replacement \in (IF op = "search" THEN {<<>>} ELSE Replacements)
    /\ backup = TRUE
    /\ files = <<F1>>
    /\ args = NoArgs
    /\ InitLocals

NextFile ==
    \/ SearchStep
    \/ ReplaceRead
    \/ BackupOpenOk
    \/ BackupWriteOk
    \/ TargetOpenOk
    \/ TargetWriteOk
    \/ Finish

SpecFile == InitFile /\ [][NextFile]_vars

(***************************************************************************)
(* Literal-mode runs: one file whose content, pattern and replacement hold *)
(* regex metacharacters and backslash sequences; use_regex is off and no   *)
(* open or write fails.                                                    *)
(***************************************************************************)
LiteralBytes == {"a", "A", ".", BSL, "n", LF}
LiteralPatterns == {<<".">>, <<"a">>, <<BSL>>, <<BSL, "n">>, <<"a", ".">>,
                    <<".", ".">>}
LiteralReplacements == {<<"b">>, <<BSL>>, <<BSL, "n">>, <<BSL, "1">>}

InitLiteral ==
    /\ \E c1 \in SeqsUpTo(LiteralBytes, MaxLit) :
           disk = [p \in Paths |-> IF p = F1 THEN c1 ELSE Missing]
    /\ denied = {}
    /\ case_sensitive \in BOOLEAN
    /\ use_regex = FALSE
    /\ op \in {"search", "replace"}
    /\ pattern \in LiteralPatterns
    /\ replacement \in (IF op = "search" THEN {<<>>} ELSE LiteralReplacements)
    /\ backup = TRUE
    /\ files = <<F1>>
    /\ args = NoArgs
    /\ InitLocals

SpecLiteral == InitLiteral /\ [][NextFile]_vars

(***************************************************************************)
(* Repeated runs: the caller calls search / replace again with the same    *)
(* arguments on the files as the run before left them; no open or write   *)
(* fails.                                                                  *)
(***************************************************************************)
RerunBytes == {"a", "b", LF}
RerunReplacements == {<<>>, <<"b">>, <<"A">>, <<"a", "a">>}

InitRerun ==
    /\ \E c1 \in SeqsUpTo(RerunBytes, MaxLen) :
           disk = [p \in Paths |-> IF p = F1 THEN c1 ELSE Missing]
    /\ denied = {}
    /\ case_sensitive \in BOOLEAN
    /\ use_regex = FALSE
    /\ op \in {"search", "replace"}
    /\ pattern \in RunPatterns
    /\ replacement \in (IF op = "search" THEN {<<>>} ELSE RerunReplacements)
    /\ backup \in BOOLEAN
    /\ files = <<F1>>
    /\ args = NoArgs
    /\ InitLocals

NextRerun ==
    \/ NextFile
    \/ Rerun

SpecRerun == InitRerun /\ [][NextRerun]_vars

(***************************************************************************)
(* Command-line runs: main on a command line and a working directory of    *)
(* two paths, each a file, a directory or missing; opens and writes can    *)
(* fail.                                                                   *)
(***************************************************************************)
MainContents == {<<"a", "a", LF, "a">>, <<"b", LF>>, Directory, Missing}

\* a file named like the backup of f1 may lie there from before the run
StaleContents == {<<"b", LF>>, Missing}

InitMain ==
    /\ \E c1 \in MainContents, c2 \in MainContents, c3 \in StaleContents :
           disk = [p \in Paths |->
                        IF p = F1 THEN c1 ELSE IF p = F2 THEN c2
                        ELSE IF p = BackupPathOf(F1) THEN c3 ELSE Missing]
    /\ denied = {}
    /\ case_sensitive = FALSE
    /\ use_regex = FALSE
    /\ op = "main"
    /\ pattern \in RunPatterns
    /\ replacement \in RunReplacements
    /\ backup = TRUE
    /\ files = <<>>
    /\ args \in [tree : BOOLEAN, files : SeqsUpTo(Targets, MaxFiles),
                  quiet : BOOLEAN, no_backup : BOOLEAN,
                  has_replacement : BOOLEAN]
    /\ idx = 1
    /\ pc = "start"
    /\ original_lines = <<>>
    /\ new_lines = <<>>
    /\ lines_changed = 0
    /\ backup_path = None
    /\ results = <<>>
    /\ ret = None
    /\ pre = disk
    /\ trace = <<>>
    /\ run = 1
    /\ stdout = <<>>
    /\ stderr = <<>>
    /\ col = 0
    /\ exit = Running
    /\ OthersIdle

NextMain ==
    \/ ParseArgs
    \/ CollectFiles
    \/ MainSearch
    \/ ReplaceRead
    \/ BackupOpenOk
    \/ BackupOpenFail
    \/ BackupWriteOk
    \/ BackupWriteFail
    \/ TargetOpenOk
    \/ TargetOpenFail
    \/ TargetWriteOk
    \/ TargetWriteFail
    \/ ExceptReturn
    \/ RestoreOpenOk
    \/ RestoreOpenFail
    \/ RestoreWriteOk
    \/ RestoreWriteFail
    \/ MainFinish

SpecMain == InitMain /\ [][NextMain]_vars

(***************************************************************************)
(* Quiet runs: main runs without --quiet and then, from the same disk, the *)
(* same command line runs with --quiet; no open or write fails.            *)
(***************************************************************************)
InitQuiet ==
    /\ InitMain
    /\ ~args.quiet

NextQuiet ==
    \/ ParseArgs
    \/ CollectFiles
    \/ MainSearch
    \/ ReplaceRead
    \/ BackupOpenOk
    \/ BackupWriteOk
    \/ TargetOpenOk
    \/ TargetWriteOk
    \/ MainFinish
    \/ RunQuiet

SpecQuiet == InitQuiet /\ [][NextQuiet]_vars

(***************************************************************************)
(* Long runs: main in search mode over --files with one name given many    *)
(* times, so that the line of dots fills up; one of the names may be that  *)
(* of a file with a match.                                                 *)
(***************************************************************************)
MaxDotFiles == 52

\* n names: f1 everywhere but f2 at position j (nowhere when j = 0)
ManyFiles(n, j) == [k \in 1..n |-> IF k = j THEN F2 ELSE F1]

InitDots ==
    /\ disk = [p \in Paths |->
                 IF p = F1 THEN <<"b", LF>>
                 ELSE IF p = F2 THEN <<"a", LF>> ELSE Missing]
    /\ denied = {}
    /\ case_sensitive = FALSE
    /\ use_regex = FALSE
    /\ op = "main"
    /\ pattern \in RunPatterns
    /\ replacement = <<>>
    /\ backup = TRUE
    /\ files = <<>>
    /\ \E n \in 1..MaxDotFiles, j \in 0..MaxDotFiles, q \in BOOLEAN :
           /\ j <= n
           /\ args = [tree |-> FALSE, files |-> ManyFiles(n, j), quiet |-> q,
                      no_backup |-> FALSE, has_replacement |-> FALSE]
    /\ idx = 1
    /\ pc = "start"
    /\ original_lines = <<>>
    /\ new_lines = <<>>
    /\ lines_changed = 0
    /\ backup_path = None
    /\ results = <<>>
    /\ ret = None
    /\ pre = disk
    /\ trace = <<>>
    /\ run = 1
    /\ stdout = <<>>
    /\ stderr = <<>>
    /\ col = 0
    /\ exit = Running
    /\ OthersIdle

NextDots ==
    \/ ParseArgs
    \/ CollectFiles
    \/ MainSearch
    \/ MainFinish

SpecDots == InitDots /\ [][NextDots]_vars

(***************************************************************************)
(* Cleaner runs: one Cleaner.do on a small tree, every key at every        *)
(* prompt.                                                                 *)
(***************************************************************************)
\* treesed is not running
EngineIdle ==
    /\ disk = [p \in Paths |-> Missing]
    /\ denied = {}
    /\ case_sensitive = FALSE
    /\ use_regex = FALSE
    /\ op = "idle"
    /\ pattern = <<>>
    /\ replacement = <<>>
    /\ backup = FALSE
    /\ files = <<>>
    /\ args = NoArgs
    /\ idx = 1
    /\ pc = "idle"
    /\ original_lines = <<>>
    /\ new_lines = <<>>
    /\ lines_changed = 0
    /\ backup_path = None
    /\ results = <<>>
    /\ ret = None
    /\ pre = disk
    /\ trace = <<>>
    /\ run = 1
    /\ stdout = <<>>
    /\ stderr = <<>>
    /\ col = 0
    /\ exit = Running
    /\ BaselineIdle

\* what the files of the tree may hold
CleanContents == {<<"x", CR, LF>>, <<"x", SPACE, LF, "x">>}
CleanPatterns == {"__pycache__", ".pyc"}

InitClean ==
    /\ EngineIdle
    /\ RepoIdle
    /\ \E present \in BOOLEAN, c \in CleanContents :
           cfs = [p \in CleanPaths |->
                    IF p = CG THEN c
                    ELSE IF ~present THEN Missing
                    ELSE IF p = CD THEN Directory ELSE <<"x", CR, LF>>]
    /\ cfs0 = cfs
    /\ \E d \in BOOLEAN, a \in {"endswith_delete", "convert"},
          n \in BOOLEAN, ps \in SUBSET CleanPatterns :
           cleaner = [dry_run |-> d, action |-> a, negate |-> n,
                      patterns |-> ps, targets |-> <<>>, confirm |-> FALSE,
                      i |-> 0, k |-> 1, log |-> <<>>, pc |-> "do"]
    /\ prompts = <<>>
    /\ invoked = <<>>

NextClean ==
    \/ Do
    \/ ApplyStep
    \/ ApplySummary

SpecClean == InitClean /\ [][NextClean]_vars

(***************************************************************************)
(* GitRepoDB runs: store is called a few times on a new dbm file.          *)
(***************************************************************************)
InitRepo ==
    /\ EngineIdle
    /\ CleanIdle
    /\ db = [n \in ProjectNames |-> NoEntry]
    /\ repo = [pc |-> "idle", todo |-> <<>>, printed |-> <<>>, calls |-> 0]
    /\ offered = <<>>

NextRepo ==
    \/ Store
    \/ StoreStep
    \/ StoreReturn

SpecRepo == InitRepo /\ [][NextRepo]_vars

(***************************************************************************)
(* Properties.  A call is one pass of the loop, recorded in trace with the *)
(* disk before and after it.                                               *)
(***************************************************************************)
CallIds == 1..Len(trace)

\* the call that returned last.  trace only grows and its entries never
\* change, so a property of every call is checked on each call in the
\* state it returned to.
LastCall == IF trace = <<>> THEN {} ELSE {Len(trace)}

\* open(p, "r") raises on disk d: the path is missing, a directory, or
\* permission is denied
Unopenable(d, p) == d[p] \in {Missing, Directory} \/ p \in denied

\* the compiled pattern matches somewhere in the line
HasMatch(line) == \E i \in 1..(Len(line) + 1) : MatchAt(compiled, line, i)

\* the indices (1-based) of the lines of file p on disk d that hold a match
MatchingLines(d, p) ==
    LET lines == ReadLines(d[p])
    IN  {k \in 1..Len(lines) : HasMatch(lines[k])}

\* the backup of p on disk d holds every original line read from p on d0
BackupComplete(d0, d, p) == d[BackupPathOf(p)] = WriteLines(ReadLines(d0[p]))

\* C1: after replace_file with backup=true changed a file, the backup is
\* byte-identical to the target as it was on disk before the call, and the
\* target holds the replaced text.
C1_BackupIsPreImage ==
    op = "replace" =>
        \A c \in LastCall :
            LET t == trace[c] IN
            (t.ret # None /\ t.ret.backup_path # None) =>
                /\ t.post[t.ret.backup_path] = t.pre[t.path]
                /\ t.post[t.path] =
                       WriteLines(NewLinesOf(compiled, repl,
                                             ReadLines(t.pre[t.path])))

\* C2: with backup=true, in no state has the target been opened for
\* writing or changed while its backup is missing or incomplete.
C2_BackupBeforeOverwrite ==
    (op = "replace" /\ backup) =>
        /\ (InCall \/ pc = "raised") =>
               ((pc \in {"target_write", "restore_write"}
                 \/ disk[path] # pre[path])
                => BackupComplete(pre, disk, path))
        /\ \A c \in LastCall :
               trace[c].post[trace[c].path] # trace[c].pre[trace[c].path]
               => BackupComplete(trace[c].pre, trace[c].post, trace[c].path)

\* C2's case: the target is open for writing and already truncated
C2_Witness ==
    /\ op = "replace" /\ backup /\ pc = "target_write"
    /\ disk[path] # pre[path]

\* C3: a readable file none of whose lines matches gets no result, no
\* write and no backup, with or without backup requested.
C3_NoMatchNoWrite ==
    op = "replace" =>
        /\ pc \in {"backup_open", "target_open"}
           => MatchingLines(pre, path) # {}
        /\ \A c \in LastCall :
               LET t == trace[c] IN
               (~Unopenable(t.pre, t.path) /\ MatchingLines(t.pre, t.path) = {})
               => (t.ret = None /\ t.post = t.pre /\ ~t.failed)

\* C3's case: a non-empty readable file without a match, backup requested
C3_Witness ==
    /\ op = "replace" /\ backup
    /\ \E c \in LastCall :
           /\ ~Unopenable(trace[c].pre, trace[c].path)
           /\ trace[c].pre[trace[c].path] # <<>>
           /\ MatchingLines(trace[c].pre, trace[c].path) = {}

\* C4: when overwriting the target fails after the backup was written,
\* the call ends with the target holding its pre-replacement content and
\* with no FileReplacement returned.
C4_OverwriteFailureRestores ==
    (op = "replace" /\ backup) =>
        /\ \A c \in LastCall :
               LET t == trace[c] IN
               t.via \in {"except", "restore_write"}
               => (t.ret = None /\ t.post[t.path] = t.pre[t.path])
        /\ pc = "raised" => disk[path] = pre[path]

\* C5 as stated: with backup=false a failed overwrite is reported to the
\* caller, who can tell it from a file in which nothing matched.
C5_WriteFailureReported ==
    (op = "replace" /\ ~backup) =>
        \A c \in LastCall : trace[c].failed => trace[c].ret # None

\* C5 as amended: with backup=false a failed overwrite is caught inside
\* replace_file, which returns None exactly as for a file in which nothing
\* matched; no exception reaches the caller and no entry is appended.
C5_WriteFailureAbsorbed ==
    (op = "replace" /\ ~backup) =>
        /\ pc # "raised"
        /\ \A c \in LastCall :
               trace[c].failed
               => (trace[c].ret = None /\ trace[c].via = "except")
        /\ \A k \in 1..Len(results) :
               \E c \in CallIds : ~trace[c].failed /\ trace[c].ret = results[k]

\* C5's case: the overwrite of a file failed and no backup was requested
C5_Witness ==
    /\ op = "replace" /\ ~backup
    /\ \E c \in LastCall : trace[c].failed /\ trace[c].post # trace[c].pre

\* C6: no per-file failure aborts replace: no exception reaches the caller
\* and every file of the list is processed.
C6_NoFailureAborts ==
    /\ pc # "raised"
    /\ pc = "done" => Len(trace) = Len(files)

\* search over a list, file by file
RECURSIVE SearchOver(_)
SearchOver(fs) ==
    IF fs = <<>> THEN <<>>
    ELSE LET m == search_file(compiled, disk, denied, Head(fs))
         IN  (IF m = None THEN <<>> ELSE <<m>>) \o SearchOver(Tail(fs))

OpenableNow(p) == ~Unopenable(disk, p)

\* C7: a path that cannot be opened for reading is skipped without
\* raising: its call returns None and leaves the disk as it was, no result
\* names it, and search returns what it returns for the list without it.
C7_UnreadableSkipped ==
    /\ \A c \in LastCall :
           LET t == trace[c] IN
           Unopenable(t.pre, t.path)
           => (t.ret = None /\ t.post = t.pre /\ ~t.failed)
    /\ \A k \in 1..Len(results) : ~Unopenable(disk, results[k].path)
    /\ (InCall \/ pc = "raised") => ~Unopenable(pre, path)
    /\ (op = "search" /\ pc = "done")
       => results = SearchOver(SelectSeq(files, OpenableNow))

\* C7's case: a list whose first path is unreadable and whose second
\* path produced a result
C7_Witness ==
    /\ pc = "done" /\ Len(files) = 2
    /\ files[1] \in denied
    /\ Len(results) = 1 /\ results[1].path = files[2]

\* the match offsets pattern.subn replaces in a line: matches that do not
\* overlap, each match left out being overlapped by a chosen one to its left
ChosenMatches(line) ==
    LET m == Len(compiled.atoms)
        all == {i \in 1..(Len(line) + 1) : MatchAt(compiled, line, i)}
    IN  CHOOSE S \in SUBSET all :
            /\ \A i, j \in S : i < j => i + m <= j
            /\ \A q \in all \ S : \E i \in S : i < q /\ q < i + m

\* the text put in place of a match
Inserted ==
    IF use_regex THEN ExpandTemplate(replacement) ELSE replacement

\* the line with every chosen match replaced
Rewritten(line) ==
    LET S == ChosenMatches(line)
        m == Len(compiled.atoms)
        piece(i) ==
            (IF i \in S THEN Inserted ELSE <<>>)
            \o (IF i <= Len(line) /\ ~\E q \in S : q <= i /\ i < q + m
                THEN <<line[i]>> ELSE <<>>)
    IN  Flatten([i \in 1..(Len(line) + 1) |-> piece(i)])

\* C8: replace substitutes every non-overlapping match on every line, and
\* the count is the number of lines with a substitution, not the number of
\* substitutions.
C8_CountsLinesNotOccurrences ==
    op = "replace" =>
        \A c \in LastCall :
            LET t == trace[c]
                lines == ReadLines(t.pre[t.path])
            IN  /\ MatchingLines(t.pre, t.path) # {} => t.ret # None
                /\ t.ret # None =>
                       /\ t.ret.count = Cardinality(MatchingLines(t.pre, t.path))
                       /\ t.post[t.path] =
                              WriteLines([k \in 1..Len(lines) |->
                                              Rewritten(lines[k])])

\* C8's case: a line with three matches adds one to the count
C8_Witness ==
    /\ op = "replace"
    /\ \E c \in LastCall :
           /\ trace[c].ret # None /\ trace[c].ret.count = 1
           /\ \E k \in MatchingLines(trace[c].pre, trace[c].path) :
                  Cardinality(ChosenMatches(
                      ReadLines(trace[c].pre[trace[c].path])[k])) = 3

\* C9: line_numbers is the strictly ascending list of exactly the 1-based
\* indices of the matching lines, and count is its length.
C9_LineNumbers ==
    op = "search" =>
        \A c \in LastCall :
            LET t == trace[c] IN
            t.ret # None =>
                LET ln == t.ret.line_numbers IN
                /\ \A i, j \in 1..Len(ln) : i < j => ln[i] < ln[j]
                /\ {ln[i] : i \in 1..Len(ln)} = MatchingLines(t.pre, t.path)
                /\ t.ret.count = Len(ln)
                /\ t.ret.path = t.path

\* C9's case: a file whose first and third lines match and whose second
\* does not
C9_Witness ==
    /\ op = "search"
    /\ \E c \in LastCall :
           trace[c].ret # None /\ trace[c].ret.line_numbers = <<1, 3>>

\* the call had to produce an entry: the file could be read, had a matching
\* line and, for replace, no open or write raised
HadEntry(t) ==
    /\ ~Unopenable(t.pre, t.path)
    /\ MatchingLines(t.pre, t.path) # {}
    /\ ~t.failed

\* the calls that returned an entry
EntryPositions == {c \in CallIds : trace[c].ret # None}

\* C10: files are processed in the order supplied and the results are in
\* input order, one entry for each position whose file had a matching
\* (replace: changed, that is successfully rewritten) line.
C10_ResultsInInputOrder ==
    LET pos == EntryPositions IN
    /\ \A c \in CallIds : trace[c].path = files[c]
    /\ pc = "done" => Len(trace) = Len(files)
    /\ \A c \in LastCall : (trace[c].ret # None) <=> HadEntry(trace[c])
    /\ Len(results) = Cardinality(pos)
    /\ \A k \in 1..Len(results) :
           LET c == CHOOSE x \in pos :
                        Cardinality({y \in pos : y < x}) = k - 1
           IN  results[k] = trace[c].ret /\ results[k].path = files[c]

\* C10's case: a finished run over two different files, each with an entry
C10_Witness ==
    /\ pc = "done" /\ Len(files) = 2
    /\ Len(results) = 2 /\ results[1].path # results[2].path

\* C11: search returns no entry with zero matches: every entry has
\* count >= 1 and a non-empty line_numbers, and a readable file without a
\* matching line, an empty file included, returns None and adds no entry.
C11_NoEmptyEntry ==
    op = "search" =>
        /\ \A k \in 1..Len(results) :
               results[k].count >= 1 /\ results[k].line_numbers # <<>>
        /\ \A c \in LastCall :
               LET t == trace[c] IN
               (~Unopenable(t.pre, t.path) /\ MatchingLines(t.pre, t.path) = {})
               => t.ret = None

\* C11's case: a finished search over a readable empty file
C11_Witness ==
    /\ op = "search" /\ pc = "done" /\ results = <<>>
    /\ \E c \in CallIds :
           /\ ~Unopenable(trace[c].pre, trace[c].path)
           /\ trace[c].pre[trace[c].path] = <<>>

\* lower-casing of a character
Lower(ch) == IF ch = "A" THEN "a" ELSE ch

\* two characters are the same, with or without regard to case
SameChar(x, y, cs) == IF cs THEN x = y ELSE Lower(x) = Lower(y)

\* the raw string pat occurs in the line at offset i (1-based)
OccursAt(line, pat, cs, i) ==
    /\ i + Len(pat) - 1 <= Len(line)
    /\ \A k \in 1..Len(pat) : SameChar(line[i + k - 1], pat[k], cs)

\* the line contains the raw string pat as a contiguous substring
Contains(line, pat, cs) ==
    \E i \in 1..(Len(line) + 1) : OccursAt(line, pat, cs, i)

\* the indices of the lines of file p on disk d that contain the raw pattern
ContainingLines(d, p) ==
    LET lines == ReadLines(d[p])
    IN  {k \in 1..Len(lines) : Contains(lines[k], pattern, case_sensitive)}

\* C12: in literal mode a line matches iff it contains the raw pattern as
\* a contiguous substring (without regard to case unless case_sensitive),
\* also when the pattern is made of regex metacharacters: search reports
\* exactly the lines containing it and replace changes a file iff one does.
C12_LiteralIsSubstring ==
    ~use_regex =>
        \A c \in LastCall :
            LET t == trace[c]
                has == ContainingLines(t.pre, t.path)
            IN  /\ (t.ret # None) <=> (has # {})
                /\ (op = "search" /\ t.ret # None) =>
                       {t.ret.line_numbers[i] :
                            i \in 1..Len(t.ret.line_numbers)} = has
                /\ (op = "replace" /\ t.ret # None) =>
                       t.ret.count = Cardinality(has)

\* C12's case: a search for "." in a file whose first line has no "." and
\* whose second line has one
C12_Witness ==
    /\ op = "search" /\ ~use_regex /\ pattern = <<".">>
    /\ \E c \in LastCall :
           /\ trace[c].ret # None
           /\ trace[c].ret.line_numbers = <<2>>

\* the offsets at which replace substitutes the raw pattern in a line: its
\* occurrences from left to right, skipping those that overlap a chosen one
LiteralChosen(line) ==
    LET m == Len(pattern)
        all == {i \in 1..(Len(line) + 1) :
                    OccursAt(line, pattern, case_sensitive, i)}
    IN  CHOOSE S \in SUBSET all :
            /\ \A i, j \in S : i < j => i + m <= j
            /\ \A q \in all \ S : \E i \in S : i < q /\ q < i + m

\* the line with the raw replacement text put in place of each occurrence
Verbatim(line) ==
    LET S == LiteralChosen(line)
        m == Len(pattern)
        piece(i) ==
            (IF i \in S THEN replacement ELSE <<>>)
            \o (IF i <= Len(line) /\ ~\E q \in S : q <= i /\ i < q + m
                THEN <<line[i]>> ELSE <<>>)
    IN  Flatten([i \in 1..(Len(line) + 1) |-> piece(i)])

\* C13: in literal mode the replacement text is inserted verbatim for each
\* match: a backslash sequence in it reaches the file as those characters,
\* is never read as an escape or a group reference, and raises nothing.
C13_ReplacementVerbatim ==
    (op = "replace" /\ ~use_regex) =>
        /\ pc # "raised"
        /\ \A c \in LastCall :
               LET t == trace[c]
                   lines == ReadLines(t.pre[t.path])
               IN  t.ret # None =>
                       t.post[t.path] =
                           Encode(Flatten([k \in 1..Len(lines) |->
                                               Verbatim(lines[k])]))

\* C13's case: "a" was replaced by backslash-n and the file now holds the
\* two characters backslash and n
C13_Witness ==
    /\ op = "replace" /\ ~use_regex
    /\ pattern = <<"a">> /\ replacement = <<BSL, "n">>
    /\ \E c \in LastCall :
           /\ trace[c].ret # None
           /\ trace[c].pre[trace[c].path] = <<"a", LF>>
           /\ trace[c].post[trace[c].path] = <<BSL, "n", LF>>

\* a text with every letter lower-cased
LowerSeq(t) == [k \in 1..Len(t) |-> Lower(t[k])]

\* the pattern text pat occurs in the line in exactly this letter case: in
\* regex mode "." stands for any character but the newline
ExactOccurrence(line, pat) ==
    \E i \in 1..(Len(line) + 1) :
        /\ i + Len(pat) - 1 <= Len(line)
        /\ \A k \in 1..Len(pat) :
               IF use_regex /\ pat[k] = "."
               THEN line[i + k - 1] # LF
               ELSE line[i + k - 1] = pat[k]

\* the line numbers a search call reported
Reported(t) ==
    IF t.ret = None THEN {}
    ELSE {t.ret.line_numbers[i] : i \in 1..Len(t.ret.line_numbers)}

\* C14: with case_sensitive=false a line matches iff its lower-cased text
\* holds an occurrence of the lower-cased pattern, so that every case
\* variant of an occurrence matches; with case_sensitive=true a line
\* matches only on an occurrence in exactly the pattern's case.
C14_CaseSensitivity ==
    op = "search" =>
        \A c \in LastCall :
            LET t == trace[c]
                lines == ReadLines(t.pre[t.path])
            IN  Reported(t) =
                    IF case_sensitive
                    THEN {k \in 1..Len(lines) :
                              ExactOccurrence(lines[k], pattern)}
                    ELSE {k \in 1..Len(lines) :
                              ExactOccurrence(LowerSeq(lines[k]),
                                              LowerSeq(pattern))}

\* C14's case: the pattern "Aa" is searched without regard to case in a
\* file whose lines are "aA" and "a", and the first line is reported
C14_Witness ==
    /\ op = "search" /\ ~case_sensitive /\ pattern = <<"A", "a">>
    /\ \E c \in LastCall :
           /\ trace[c].pre[trace[c].path] = <<"a", "A", LF, "a">>
           /\ Reported(trace[c]) = {1}

\* C16: an empty pattern raises nothing and matches everywhere: a search
\* with the empty literal pattern returns, for a readable file of n >= 1
\* lines, an entry with count n and line_numbers 1..n.
C16_EmptyPatternMatchesAll ==
    (op = "search" /\ ~use_regex /\ pattern = <<>>) =>
        /\ pc # "raised"
        /\ \A c \in LastCall :
               LET t == trace[c]
                   n == Len(ReadLines(t.pre[t.path]))
               IN  (~Unopenable(t.pre, t.path) /\ n >= 1) =>
                       /\ t.ret # None
                       /\ t.ret.count = n
                       /\ t.ret.line_numbers = [k \in 1..n |-> k]

\* C16's case: the empty pattern searched in a file of three lines, one
\* of them holding only its newline
C16_Witness ==
    /\ op = "search" /\ ~use_regex /\ pattern = <<>>
    /\ \E c \in LastCall :
           /\ trace[c].pre[trace[c].path] = <<"a", LF, LF, "a">>
           /\ trace[c].ret # None /\ trace[c].ret.count = 3

C17_ReplacementEntry ==
    op = "replace" =>
        /\ \A c \in LastCall :
               LET t == trace[c] IN
               t.ret # None =>
                   /\ t.ret.count >= 1
                   /\ t.ret.path = t.path
                   /\ (t.ret.backup_path # None) <=> backup
                   /\ backup =>
                          /\ t.ret.backup_path =
                                 [name |-> t.path.name,
                                  suffix |-> Append(t.path.suffix, Pid)]
                          /\ t.post[t.ret.backup_path] # Missing
                          /\ t.post[t.ret.backup_path] =
                                 WriteLines(ReadLines(t.pre[t.path]))
        /\ \A k \in 1..Len(results) :
               \E c \in CallIds : trace[c].ret = results[k]
        /\ ~backup => \A p \in Paths \ Targets : disk[p] = Missing

\* C17's case: replace with backup returned an entry that names a backup
\* file, and the file is there
C17_Witness ==
    /\ op = "replace" /\ backup /\ pc = "done"
    /\ \E k \in 1..Len(results) :
           /\ results[k].backup_path # None
           /\ disk[results[k].backup_path] # Missing

\* C18: on a command line that argparse accepts, main returns 1 exactly
\* when the resolved file set is empty, after "No input files" on stderr
\* and without searching or modifying a file; every other run returns 0.
C18_ExitCode ==
    (op = "main" /\ ArgsAccepted) =>
        /\ pc # "raised"
        /\ pc = "done" =>
               exit = (IF files = <<>> THEN Returned(1) ELSE Returned(0))
        /\ (pc = "done" /\ files = <<>>) =>
               /\ stderr = <<NoInputFiles>>
               /\ stdout = <<>>
               /\ disk = pre /\ trace = <<>> /\ ret = None

\* C19: a command line with both or neither of --tree and --files is
\* rejected by argument parsing with a non-zero exit before any file is
\* collected, read or written.
C19_InvalidCombinationRejected ==
    (op = "main" /\ ~ArgsAccepted) =>
        /\ pc \in {"start", "done"}
        /\ pc = "done" => (exit.kind = "SystemExit" /\ exit.code # 0)
        /\ files = <<>> /\ stdout = <<>>
        /\ disk = pre /\ trace = <<>> /\ ret = None

\* C19's case: --tree and --files were both given, next to an existing
\* file, and main has ended
C19_Witness ==
    /\ op = "main" /\ pc = "done"
    /\ args.tree /\ args.files # <<>>
    /\ \E i \in 1..Len(args.files) : is_file(disk, args.files[i])

\* the positions of the given paths that are regular files
RegularPositions == {i \in 1..Len(args.files) : is_file(pre, args.files[i])}

\* C20: collect_files returns exactly the given paths that are regular
\* files, in the caller's order, a path given twice being kept twice, and
\* drops directories and missing paths.
C20_CollectFiles ==
    (op = "main" /\ ArgsAccepted /\ ~args.tree /\ pc \in {"loop", "done"}) =>
        /\ Len(files) = Cardinality(RegularPositions)
        /\ \A k \in 1..Len(files) :
               LET i == CHOOSE x \in RegularPositions :
                            Cardinality({y \in RegularPositions : y < x}) = k - 1
               IN  files[k] = args.files[i]

\* C20's case: a directory and then a regular file were given, and only
\* the file was collected
C20_Witness ==
    /\ op = "main" /\ ~args.tree /\ pc = "loop" /\ idx = 1
    /\ Len(args.files) = 2
    /\ pre[args.files[1]] = Directory
    /\ files = <<args.files[2]>>

\* a per-file match line or a "Replaced" line
IsResultLine(item) == item.kind \in {"matches", "replaced"}

ResultLines(out) == SelectSeq(out, IsResultLine)

\* C21: with --quiet the header and the progress dots are not printed,
\* while the match lines and "Replaced" lines, the files as the run leaves
\* them and the exit code are those of the same run without --quiet.
C21_QuietSameResults ==
    (op = "main" /\ args.quiet) =>
        /\ \A i \in 1..Len(stdout) : IsResultLine(stdout[i])
        /\ (baseline.done /\ pc = "done") =>
               /\ stdout = ResultLines(baseline.stdout)
               /\ disk = baseline.after
               /\ exit = baseline.exit

\* C21's case: the run without --quiet printed a header, dots, a match
\* line and a "Replaced" line, and the --quiet run has ended
C21_Witness ==
    /\ op = "main" /\ args.quiet /\ baseline.done /\ pc = "done"
    /\ disk # baseline.disk
    /\ \E i \in 1..Len(baseline.stdout) : baseline.stdout[i] = Dot
    /\ \E i \in 1..Len(stdout) : stdout[i].kind = "replaced"
    /\ Len(stdout) < Len(baseline.stdout)

\* C30: in main with a replacement, replace_file is entered only for the
\* file in which search_file has just found a match, and every "Replaced"
\* line directly follows the match line of the same file and carries the
\* same count.
C30_ReplaceAfterMatch ==
    op = "main" =>
        /\ (pc = "replace_file" \/ InCall) =>
               /\ args.has_replacement
               /\ idx <= Len(files)
               /\ ret # None /\ ret.path = path
               /\ stdout # <<>> /\ stdout[Len(stdout)] = MatchLine(ret)
        /\ pc = "replace_file" =>
               ret = search_file(compiled, disk, denied, path)
        /\ \A c \in CallIds :
               search_file(compiled, trace[c].pre, denied, trace[c].path) # None
        /\ \A i \in 1..Len(stdout) :
               stdout[i].kind = "replaced" =>
                   /\ i > 1
                   /\ stdout[i - 1].kind = "matches"
                   /\ stdout[i - 1].path = stdout[i].path
                   /\ stdout[i - 1].count = stdout[i].count

\* C30's case: a file with two matching lines and three occurrences was
\* replaced and its "Replaced" line printed, after a file without a match
C30_Witness ==
    /\ op = "main" /\ pc = "done"
    /\ Len(files) = 2 /\ Len(trace) = 1
    /\ \E i \in 1..Len(stdout) :
           stdout[i].kind = "replaced" /\ stdout[i].count = 2

\* the call returned from the open or the write of the backup
BackupFailed(t) == t.failed /\ t.via \in {"backup_open", "backup_write"}

\* C26: when opening or writing the backup fails, replace_file returns
\* None without opening the target: the target, and every file but the
\* backup, is as before the call; and a call on a matching file that
\* leaves no complete backup is such a failed call.
C26_BackupFailureLeavesTarget ==
    (op = "replace" /\ backup) =>
        \A c \in LastCall :
            LET t == trace[c] IN
            /\ (/\ ~Unopenable(t.pre, t.path)
                /\ MatchingLines(t.pre, t.path) # {}
                /\ ~BackupComplete(t.pre, t.post, t.path))
               => BackupFailed(t)
            /\ BackupFailed(t) =>
                   /\ t.ret = None
                   /\ t.post[t.path] = t.pre[t.path]
                   /\ \A p \in Paths \ {BackupPathOf(t.path)} :
                          t.post[p] = t.pre[p]

\* C26's case: the write of the backup failed part-way, leaving a
\* truncated backup beside the matching target
C26_Witness ==
    /\ op = "replace" /\ backup
    /\ \E c \in LastCall :
           /\ BackupFailed(trace[c]) /\ trace[c].via = "backup_write"
           /\ MatchingLines(trace[c].pre, trace[c].path) # {}
           /\ trace[c].post[BackupPathOf(trace[c].path)] # Missing
           /\ ~BackupComplete(trace[c].pre, trace[c].post, trace[c].path)

RECURSIVE RawLinesFrom(_, _, _)
\* the lines of a file as they lie on disk, each with its own terminator:
\* "\n", "\r\n" or a lone "\r"
RawLinesFrom(b, i, cur) ==
    IF i > Len(b) THEN (IF cur = <<>> THEN <<>> ELSE <<cur>>)
    ELSE IF b[i] = CR /\ i + 1 <= Len(b) /\ b[i + 1] = LF
         THEN <<cur \o <<CR, LF>> >> \o RawLinesFrom(b, i + 2, <<>>)
    ELSE IF b[i] \in {CR, LF}
         THEN <<Append(cur, b[i])>> \o RawLinesFrom(b, i + 1, <<>>)
    ELSE RawLinesFrom(b, i + 1, Append(cur, b[i]))

RawLines(b) == RawLinesFrom(b, 1, <<>>)

\* C27: in a file changed by replace, every line without a match is
\* written back identical to the original line, terminator included, and
\* at the same position; only lines with a match differ.  The file after
\* the call is, line by line, the original line where nothing matched and
\* the substituted line where something did.
C27_UnmatchedLinesKept ==
    op = "replace" =>
        \A c \in LastCall :
            LET t == trace[c]
                before == RawLines(t.pre[t.path])
                lines == ReadLines(t.pre[t.path])
            IN  t.ret # None =>
                    /\ Len(lines) = Len(before)
                    /\ t.post[t.path] =
                           Flatten([k \in 1..Len(before) |->
                                      IF k \in MatchingLines(t.pre, t.path)
                                      THEN Encode(Subn(compiled, repl,
                                                       lines[k]).out)
                                      ELSE before[k]])

\* the calls so far that changed file p: replace_file returned an entry
ChangingCalls(p) == {c \in CallIds : trace[c].path = p /\ trace[c].ret # None}

MostRecent(calls) == CHOOSE c \in calls : \A o \in calls : o <= c

\* C28: between calls of replace with backup=true, the backup of a file
\* holds the content the file had immediately before the most recent call
\* that changed it.
C28_BackupIsLatestPreImage ==
    (op = "replace" /\ backup /\ pc \in {"loop", "done"}) =>
        \A p \in Targets :
            ChangingCalls(p) # {} =>
                disk[BackupPathOf(p)] = trace[MostRecent(ChangingCalls(p))].pre[p]

\* the list main builds from the directory as it is when main starts
ListAtStart ==
    IF args.tree THEN collect_tree(baseline.disk)
    ELSE collect_files(baseline.disk, args.files)

\* the call got as far as opening its backup for writing
WroteBackup(t) == backup /\ t.via \notin {"loop", "replace_file", "backup_open"}

\* the backup files the run has written so far
BackupsWritten == {BackupPathOf(trace[c].path) : c \in {d \in CallIds : WroteBackup(trace[d])}}

\* main is at, or inside, the processing of files[idx]
Processing == (pc \in {"loop", "replace_file"} \/ InCall) /\ idx <= Len(files)

\* main has got past the building of the list
ListBuilt == pc \notin {"start", "collect"} /\ exit # SystemExit(2)

\* C29 as stated: the file list is fixed before processing starts, and no
\* file the run wrote as a backup is afterwards searched or modified.
C29_BackupsNeverProcessed ==
    op = "main" =>
        /\ ListBuilt => files = ListAtStart
        /\ Processing => path \notin BackupsWritten

\* C29: the file list is fixed before processing starts, so a backup the
\* run wrote is afterwards searched or modified only if a file of that
\* name was there when the list was built; a backup new in this run is
\* never the target of a later call and is changed by a later call only
\* by being written as that call's backup again.
C29_NewBackupsNeverProcessed ==
    op = "main" =>
        /\ ListBuilt => files = ListAtStart
        /\ \A k \in 1..Len(files) : is_file(baseline.disk, files[k])
        /\ (Processing /\ path \in BackupsWritten)
               => is_file(baseline.disk, path)
        /\ \A c \in CallIds, c2 \in LastCall :
               LET b == BackupPathOf(trace[c].path) IN
               (WroteBackup(trace[c]) /\ ~is_file(baseline.disk, b) /\ c < c2)
               => /\ trace[c2].path # b
                  /\ trace[c2].post[b] # trace[c2].pre[b]
                     => BackupPathOf(trace[c2].path) = b

\* C29's case: a run over the tree wrote a backup that was not there
\* before, a later file was replaced too, and the run has ended
C29_Witness ==
    /\ op = "main" /\ pc = "done" /\ args.tree
    /\ Len(trace) = 2
    /\ WroteBackup(trace[1])
    /\ ~is_file(baseline.disk, BackupPathOf(trace[1].path))
    /\ is_file(disk, BackupPathOf(trace[1].path))
    /\ trace[2].ret # None

IsDot(item) == item = Dot

RECURSIVE TrailingDots(_)
\* the dots on the line being written
TrailingDots(out) ==
    IF out = <<>> \/ out[Len(out)] # Dot THEN 0
    ELSE 1 + TrailingDots(SubSeq(out, 1, Len(out) - 1))

\* the files examined so far: search_file has been called on them
Examined == IF pc \in {"loop", "done"} THEN idx - 1 ELSE idx

\* C22: without --quiet one "." is written per file examined, the dot
\* column is within 0..49 after each file and counts the dots on the
\* line being written, and no 51 dots follow one another in the output.
C22_DotsWrapAtFifty ==
    (op = "main" /\ ~args.quiet /\ ListBuilt) =>
        /\ Len(SelectSeq(stdout, IsDot)) = Examined
        /\ col \in 0..(DotsPerLine - 1)
        /\ pc # "done" => col = TrailingDots(stdout)
        /\ \A i \in 1..(Len(stdout) - DotsPerLine) :
               \E k \in i..(i + DotsPerLine) : stdout[k] # Dot

\* C22's case: more than 50 files without a match were examined; the
\* 50th dot was followed by a line break and the dots went on
C22_Witness ==
    /\ op = "main" /\ ~args.quiet /\ pc = "done"
    /\ Len(files) > DotsPerLine
    /\ col > 0
    /\ \E i \in 2..(Len(stdout) - 1) :
           /\ stdout[i] = Newline
           /\ TrailingDots(SubSeq(stdout, 1, i - 1)) = DotsPerLine
           /\ stdout[i + 1] = Dot

\* the answer to the question about all targets, once it was asked
BulkAnswered == prompts # <<>>
BulkAnswer == prompts[1].answer

\* the prompts about single targets
TargetPrompts == 2..Len(prompts)

IsWould(entry) == entry.kind = "Would"

\* C23: with dry_run no answers make the Cleaner delete or rewrite
\* anything: the action is never called, the tree stays as it was, and
\* each target agreed to is logged as "Would ...".
C23_DryRunTouchesNothing ==
    cleaner.dry_run =>
        /\ cfs = cfs0
        /\ invoked = <<>>
        /\ cleaner.pc # "raised"
        /\ Len(SelectSeq(cleaner.log, IsWould)) = cleaner.i
        /\ cleaner.pc = "finished" =>
               cleaner.log[Len(cleaner.log)].kind \in
                   {"No results.", "Action cancelled.", "No action taken",
                    "Would apply"}

\* C23's case: a dry run in which the user chose to confirm each target
\* and said yes to a directory and to a file
C23_Witness ==
    /\ cleaner.dry_run /\ cleaner.pc = "finished"
    /\ cleaner.confirm /\ cleaner.i >= 2
    /\ \E j \in TargetPrompts :
           prompts[j].answer = "y" /\ cfs[prompts[j].target] = Directory
    /\ \E j \in TargetPrompts : prompts[j].answer = "q"

\* the user agreed to the action on target t
Approved(t) ==
    /\ BulkAnswered
    /\ \/ BulkAnswer \in {"y", "Y"}
       \/ /\ BulkAnswer \in {"c", "C"}
          /\ \E j \in TargetPrompts :
                 prompts[j].target = t /\ prompts[j].answer \in {"y", "Y"}

\* in confirm mode target t was answered with something other than y/Y,
\* or was not asked about because q came first
Declined(t) ==
    /\ BulkAnswered /\ BulkAnswer \in {"c", "C"}
    /\ \/ \E j \in TargetPrompts :
              prompts[j].target = t /\ prompts[j].answer \notin {"y", "Y"}
       \/ /\ \E j \in TargetPrompts : prompts[j].answer = "q"
          /\ \A j \in TargetPrompts : prompts[j].target # t

\* the action was called on t only with the user's agreement, and any
\* other answer to the first question cancels with nothing touched
OnlyApproved ==
    /\ \A k \in 1..Len(invoked) : Approved(invoked[k])
    /\ (BulkAnswered /\ BulkAnswer \notin {"y", "Y", "c", "C"}) =>
           /\ cfs = cfs0 /\ invoked = <<>>
           /\ cleaner.pc = "finished"
           /\ cleaner.log = <<CleanLog("Action cancelled.", None, 0)>>

\* C24 as stated: the action is applied only to targets agreed to, any
\* other first answer cancels, and a target answered n or reached after q
\* is never touched.
C24_DeclinedUntouched ==
    ~cleaner.dry_run =>
        /\ OnlyApproved
        /\ \A t \in CleanPaths : Declined(t) => cfs[t] = cfs0[t]

\* a directory the action deleted, with the user's agreement, holds t
DeletedWithParent(t) ==
    /\ cleaner.action = "endswith_delete"
    /\ \E k \in 1..Len(invoked) :
           /\ Inside(t, invoked[k]) /\ cfs0[invoked[k]] = Directory
           /\ Approved(invoked[k])

\* C24: the action is applied only to targets agreed to, any other first
\* answer cancels, and the action is never called on a target answered n
\* or reached after q; such a target stays as it was unless it lies in a
\* directory target that was deleted with the user's agreement.
C24_DeclinedNotApplied ==
    ~cleaner.dry_run =>
        /\ OnlyApproved
        /\ \A t \in CleanPaths :
               Declined(t) =>
                   /\ \A k \in 1..Len(invoked) : invoked[k] # t
                   /\ cfs[t] = cfs0[t] \/ (cfs[t] = Missing /\ DeletedWithParent(t))

\* C24's case: confirming each target, the user said yes to one, no to
\* the next, and the declined one is still there
C24_Witness ==
    /\ ~cleaner.dry_run /\ cleaner.pc = "finished"
    /\ Len(invoked) = 1
    /\ cfs[invoked[1]] = Missing
    /\ \E t \in CleanPaths :
           /\ Declined(t) /\ cfs[t] = cfs0[t] /\ cfs[t] # Missing
           /\ \E j \in TargetPrompts :
                  prompts[j].target = t /\ prompts[j].answer = "n"

\* the positions at which a url named n was handed to store
OfferedAs(n) == {i \in 1..Len(offered) : Stem(offered[i].url) = n}

First(S) == CHOOSE i \in S : \A j \in S : i <= j

\* C25: store never overwrites: the url under a project name is the
\* first url ever handed to store with that stem, whatever came later,
\* and each such later url is printed as skipped.
C25_FirstUrlKept ==
    /\ \A n \in ProjectNames :
           db[n] = IF OfferedAs(n) = {} THEN NoEntry
                   ELSE Str(offered[First(OfferedAs(n))].url)
    /\ Len(repo.printed) = Len(offered)
    /\ \A i \in 1..Len(offered) :
           LET n == Stem(offered[i].url) IN
           repo.printed[i] = [kind |-> IF i = First(OfferedAs(n))
                                      THEN "storing:" ELSE "skipping:",
                              name |-> n]

\* C25's case: a second call of store offered a different url with the
\* stem of one stored by the first call
C25_Witness ==
    /\ repo.pc = "idle" /\ repo.calls = 2
    /\ \E i, j \in 1..Len(offered) :
           /\ i < j
           /\ offered[i].call = 1 /\ offered[j].call = 2
           /\ Stem(offered[i].url) = Stem(offered[j].url)
           /\ offered[i].url # offered[j].url
           /\ db[Stem(offered[i].url)] = Str(offered[i].url)

====
